---- MODULE Spec2Model ----
(***************************************************************************)
(* A model of the hubbub HTML parser fragment:                             *)
(*   - the "in select" insertion mode of the tree-construction driver      *)
(*     (src/src/treebuilder/in_select.c) with the dispatch loop around it; *)
(*   - the parser shell (src/src/parser.c): creation, options, chunked     *)
(*     input, completion and destruction.                                  *)
(* The treebuilder utilities, the tokeniser and the input stream are not   *)
(* part of the source fragment; they are modelled from the specification.  *)
(***************************************************************************)
EXTENDS Integers, Sequences, FiniteSets, TLC

\* ------------------------------------------------------------------ bounds
\* Largest node handle the tree handler hands out in one treebuilder run.
MaxNodes == 5
\* Largest number of bytes in one chunk handed to the parser.
MaxChunk == 1
\* Largest number of input calls (parse_chunk / completed) on one parser.
MaxCalls == 3
\* Largest number of input calls on one parser when options are set too.
MaxApiCalls == 2
\* Largest number of nodes the sample tree handler allocates.
MaxTreeNodes == 4
\* Largest number of nodes it allocates when only elements are made.
MaxLinkNodes == 6
\* Largest number of tree-handler calls made in a row when only elements
\* are made.
MaxLinkCalls == 8

\* ------------------------------------------------------------- vocabulary
OK == "HUBBUB_OK"
NOMEM == "HUBBUB_NOMEM"
BADPARM == "HUBBUB_BADPARM"

\* The value of a local `node` that no successful pop has written.
NoNode == 0
Nodes == 1..MaxNodes

INVALID == "HUBBUB_INVALID"

IN_SELECT == "IN_SELECT"
IN_BODY == "IN_BODY"

TagNames == {"html", "option", "optgroup", "select", "input", "textarea",
             "div", "blink"}

\* Token kinds of the tokeniser; tags carry a name.
Tokens ==
    [type : {"CHARACTER", "COMMENT", "DOCTYPE", "EOF"}, name : {"none"}]
    \cup [type : {"START_TAG", "END_TAG"}, name : TagNames]

\* element_type_from_name: the element-type tag of a tag name; a name
\* outside the closed enumeration is UNKNOWN.
element_type_from_name(name) ==
    CASE name = "html" -> "HTML"
      [] name = "option" -> "OPTION"
      [] name = "optgroup" -> "OPTGROUP"
      [] name = "select" -> "SELECT"
      [] name = "input" -> "INPUT"
      [] name = "textarea" -> "TEXTAREA"
      [] name = "div" -> "DIV"
      [] OTHER -> "UNKNOWN"

\* ---------------------------------------------------------------- state
VARIABLES
    \* -- the treebuilder (treebuilder->context) and its dispatch loop
    element_stack,  \* open-element stack: frames [type, node], bottom first
    mode,           \* the insertion mode
    token,          \* the token the dispatch loop is working on
    reprocess,      \* the dispatch loop's flag: dispatch the token (again)
    lastHandler,    \* the mode whose handler returned last for this token
    refs,           \* per node: ref_node calls minus unref_node calls
    tlog,           \* tree-handler calls and stack moves made for this token
    nextNode,       \* the next node handle create_element returns
    tbActive,       \* the treebuilder exists
    eofDone,        \* the EOF token has been processed
    callResult,     \* result of the top-level parse call delivering the token
    \* -- struct hubbub_parser
    parser,         \* the parser object: "NULL", "alive" or "freed"
    stream,         \* parser->stream: "NULL" or "alive"
    tok,            \* parser->tok
    tb,             \* parser->tb
    opts,           \* options registered: pairs <<component, option>>
    lifeLog,        \* creations and destructions of this parser, in order
    result,         \* what the last API call returned
    \* -- input stream, tokeniser and the token handler's view
    inputstream,    \* [bytes, cursor, had_eof, owner]
    tokeniser,      \* [state, name]: what a suspended tokeniser keeps
    delivered,      \* tokens handed to the token handler, in order
    hist,           \* bookkeeping of the input calls made so far
    \* -- the sample tree handler (perf/hubbub.c)
    heap,           \* the node_t objects allocated so far, by handle
    Document,       \* the first top-level node, 0 if there is none
    treeCalls       \* tree-handler calls counted so far

tbVars == <<element_stack, mode, token, reprocess, lastHandler, refs, tlog,
            nextNode, tbActive, eofDone, callResult>>

shellVars == <<parser, stream, tok, tb, opts, lifeLog, result>>

inputVars == <<inputstream, tokeniser, delivered, hist>>

treeVars == <<heap, Document, treeCalls>>

vars == <<element_stack, mode, token, reprocess, lastHandler, refs, tlog,
          nextNode, tbActive, eofDone, callResult,
          parser, stream, tok, tb, opts, lifeLog, result,
          inputstream, tokeniser, delivered, hist,
          heap, Document, treeCalls>>

\* ------------------------------------------------- treebuilder utilities
\* A treebuilder context threaded through one handler call.
Ctx(stack, m, r, log, nxt) ==
    [stack |-> stack, mode |-> m, refs |-> r, log |-> log, next |-> nxt]

Ev(op, node, other, res) ==
    [op |-> op, node |-> node, other |-> other, res |-> res]

\* current_node: the element type of the top frame.
current_node(c) ==
    IF c.stack = <<>> THEN "UNKNOWN" ELSE c.stack[Len(c.stack)].type

\* prev_node: the element type of the frame below the top one.
prev_node(c) ==
    IF Len(c.stack) < 2 THEN "UNKNOWN" ELSE c.stack[Len(c.stack) - 1].type

\* The stop set of "in table scope".
TableScopeStops == {"HTML", "TABLE"}

ScopingElements == {"APPLET", "BUTTON", "CAPTION", "HTML", "MARQUEE",
                    "OBJECT", "TABLE", "TD", "TH"}

RECURSIVE ScopeWalk(_, _, _, _)
ScopeWalk(stack, i, type, stops) ==
    IF i = 0 THEN FALSE
    ELSE IF stack[i].type = type THEN TRUE
    ELSE IF stack[i].type \in stops THEN FALSE
    ELSE ScopeWalk(stack, i - 1, type, stops)

\* element_in_scope: walk the stack from the current node downwards.
element_in_scope(c, type, in_table) ==
    ScopeWalk(c.stack, Len(c.stack), type,
              IF in_table THEN TableScopeStops ELSE ScopingElements)

\* The result of the k-th unref_node call of a handler run: the tree handler
\* may fail any call; `fails` is the set of call indices that fail.
NumUnrefs(log) == Cardinality({i \in 1..Len(log) : log[i].op = "unref"})

\* tree_handler->unref_node(ctx, node); the caller drops the result.
unref_node(c, node, fails) ==
    LET res == IF NumUnrefs(c.log) + 1 \in fails THEN NOMEM ELSE OK IN
    [c EXCEPT !.refs = IF node \in DOMAIN c.refs
                       THEN [c.refs EXCEPT ![node] = @ - 1] ELSE c.refs,
              !.log = Append(c.log, Ev("unref", node, NoNode, res))]

\* tree_handler->ref_node(ctx, node).
ref_node(c, node) ==
    [c EXCEPT !.refs = [c.refs EXCEPT ![node] = @ + 1],
              !.log = Append(c.log, Ev("ref", node, NoNode, OK))]

\* element_stack_pop: remove the top frame and hand back its node; on an
\* empty stack it fails and leaves the caller's `node` as it was.
element_stack_pop(c, garbage) ==
    IF c.stack = <<>>
    THEN [c |-> [c EXCEPT !.log = Append(c.log,
                                     Ev("popfail", garbage, NoNode, OK))],
          ok |-> FALSE, node |-> garbage, type |-> "UNKNOWN"]
    ELSE LET top == c.stack[Len(c.stack)] IN
         [c |-> [c EXCEPT !.stack = SubSeq(c.stack, 1, Len(c.stack) - 1),
                          !.log = Append(c.log,
                                     Ev("pop", top.node, NoNode, OK))],
          ok |-> TRUE, node |-> top.node, type |-> top.type]

\* element_stack_pop_until: pop and release frames up to and including the
\* first one of the given type.
RECURSIVE element_stack_pop_until(_, _, _, _)
element_stack_pop_until(c, type, garbage, fails) ==
    LET p == element_stack_pop(c, garbage) IN
    IF ~p.ok THEN p.c
    ELSE LET c2 == unref_node(p.c, p.node, fails) IN
         IF p.type = type THEN c2
         ELSE element_stack_pop_until(c2, type, garbage, fails)

\* reset_insertion_mode: the mode follows the topmost frame that names one.
RECURSIVE ResetWalk(_, _)
ResetWalk(stack, i) ==
    IF i = 0 THEN IN_BODY
    ELSE IF stack[i].type = "SELECT" THEN IN_SELECT
    ELSE IF stack[i].type = "BODY" THEN IN_BODY
    ELSE ResetWalk(stack, i - 1)

reset_insertion_mode(c) == [c EXCEPT !.mode = ResetWalk(c.stack, Len(c.stack))]

\* insert_element: create the element, append it to the current node, take
\* a reference and only then store it on the open-element stack.
insert_element(c, type) ==
    LET n == c.next
        parent == c.stack[Len(c.stack)].node
        c1 == [c EXCEPT !.log = c.log \o <<Ev("create", n, NoNode, OK),
                                          Ev("append", n, parent, OK)>>,
                        !.next = n + 1]
        c2 == ref_node(c1, n)
    IN [c2 EXCEPT !.stack = Append(c2.stack, [type |-> type, node |-> n]),
                  !.log = Append(c2.log, Ev("push", n, NoNode, OK))]

\* append_text / process_comment_append: a text or comment node is created
\* and appended to the current node; nothing is stored on the stack.
append_leaf(c, what) ==
    [c EXCEPT !.log = Append(c.log,
          Ev(what, NoNode, c.stack[Len(c.stack)].node, OK))]

\* process_tag_in_body for a start tag "html": its attributes are added to
\* the root element; the stack is left alone.
process_tag_in_body(c) ==
    [c EXCEPT !.log = Append(c.log,
          Ev("add_attributes", c.stack[1].node, NoNode, OK))]

\* ------------------------------------------- handle_in_select (in_select.c)
\* Mutants of PopAndUnref: the frame is popped and its reference is kept;
\* the node is released while its frame is still on the stack.
PopAndUnref_NoUnref(c, garbage, fails) == element_stack_pop(c, garbage).c

PopAndUnref_UnrefFirst(c, garbage, fails) ==
    LET c1 == unref_node(c, c.stack[Len(c.stack)].node, fails) IN
    element_stack_pop(c1, garbage).c

\* The pop-then-release pair: the result of element_stack_pop is not acted
\* on, and unref_node is called with whatever `node` holds; the result of
\* unref_node is dropped.
PopAndUnref(c, garbage, fails) ==
    LET p == element_stack_pop(c, garbage) IN unref_node(p.c, p.node, fails)

\* Mutant of StartTagOption: an open option is not closed first.
StartTagOption_NoImplicitClose(c, garbage, fails) ==
    insert_element(c, "OPTION")

\* Start tag "option".
StartTagOption(c, garbage, fails) ==
    LET c1 == IF current_node(c) = "OPTION"
              THEN PopAndUnref(c, garbage, fails) ELSE c
    IN insert_element(c1, "OPTION")

\* Mutant of StartTagOptgroup: open option and optgroup are not closed first.
StartTagOptgroup_NoClose(c, garbage, fails) ==
    insert_element(c, "OPTGROUP")

\* Start tag "optgroup".
StartTagOptgroup(c, garbage, fails) ==
    LET c1 == IF current_node(c) = "OPTION"
              THEN PopAndUnref(c, garbage, fails) ELSE c
        c2 == IF current_node(c1) = "OPTGROUP"
              THEN PopAndUnref(c1, garbage, fails) ELSE c1
    IN insert_element(c2, "OPTGROUP")

\* Mutant of CloseSelect: the frames are popped without the scope test.
CloseSelect_NoScopeTest(c, garbage, fails) ==
    reset_insertion_mode(element_stack_pop_until(c, "SELECT", garbage, fails))

\* Close the open select: only when a SELECT is in table scope; otherwise
\* (the fragment case) nothing is done.
CloseSelect(c, garbage, fails) ==
    IF element_in_scope(c, "SELECT", TRUE)
    THEN reset_insertion_mode(
             element_stack_pop_until(c, "SELECT", garbage, fails))
    ELSE c

\* Mutant of StartTagSelectInputTextarea: the token is always reprocessed.
StartTagSelectInputTextarea_AlwaysReprocess(c, type, garbage, fails) ==
    [c |-> CloseSelect(c, garbage, fails), reprocess |-> TRUE]

\* Start tag "select", "input" or "textarea".
StartTagSelectInputTextarea(c, type, garbage, fails) ==
    [c |-> CloseSelect(c, garbage, fails), reprocess |-> type # "SELECT"]

\* Mutant of EndTagOptgroup: the option is popped whatever lies below it.
EndTagOptgroup_NoPrevTest(c, garbage, fails) ==
    LET c1 == IF current_node(c) = "OPTION"
              THEN PopAndUnref(c, garbage, fails) ELSE c
    IN IF current_node(c1) = "OPTGROUP"
       THEN PopAndUnref(c1, garbage, fails) ELSE c1

\* End tag "optgroup".
EndTagOptgroup(c, garbage, fails) ==
    LET c1 == IF current_node(c) = "OPTION" /\ prev_node(c) = "OPTGROUP"
              THEN PopAndUnref(c, garbage, fails) ELSE c
    IN IF current_node(c1) = "OPTGROUP"
       THEN PopAndUnref(c1, garbage, fails) ELSE c1

\* Mutant of EndTagOption: the current node is popped whatever it is.
EndTagOption_AlwaysPop(c, garbage, fails) == PopAndUnref(c, garbage, fails)

\* End tag "option".
EndTagOption(c, garbage, fails) ==
    IF current_node(c) = "OPTION" THEN PopAndUnref(c, garbage, fails) ELSE c

\* End tag "select".
EndTagSelect(c, garbage, fails) == CloseSelect(c, garbage, fails)

Done(c) == [c |-> c, reprocess |-> FALSE]

\* handle_in_select: the whole handler; returns the new context and the
\* reprocess flag.
handle_in_select(c, t, garbage, fails) ==
    LET type == element_type_from_name(t.name) IN
    CASE t.type = "CHARACTER" -> Done(append_leaf(c, "append_text"))
      [] t.type = "COMMENT" -> Done(append_leaf(c, "append_comment"))
      [] t.type = "DOCTYPE" -> Done(c)
      [] t.type = "START_TAG" ->
           IF type = "HTML" THEN Done(process_tag_in_body(c))
           ELSE IF type = "OPTION"
           THEN Done(StartTagOption(c, garbage, fails))
           ELSE IF type = "OPTGROUP"
           THEN Done(StartTagOptgroup(c, garbage, fails))
           ELSE IF type \in {"SELECT", "INPUT", "TEXTAREA"}
           THEN StartTagSelectInputTextarea(c, type, garbage, fails)
           ELSE Done(c)
      [] t.type = "END_TAG" ->
           IF type = "OPTGROUP" THEN Done(EndTagOptgroup(c, garbage, fails))
           ELSE IF type = "OPTION"
           THEN Done(EndTagOption(c, garbage, fails))
           ELSE IF type = "SELECT" THEN Done(EndTagSelect(c, garbage, fails))
           ELSE Done(c)
      [] t.type = "EOF" -> Done(c)

\* ------------------------------------------ the other insertion modes
\* Pop and release every frame (stop parsing; treebuilder destruction).
RECURSIVE ReleaseAll(_, _, _)
ReleaseAll(c, garbage, fails) ==
    IF c.stack = <<>> THEN c
    ELSE LET p == element_stack_pop(c, garbage) IN
         ReleaseAll(unref_node(p.c, p.node, fails), garbage, fails)

\* handle_in_body, as far as the select element needs it: a start tag
\* "select" is inserted and switches to "in select"; EOF stops parsing and
\* empties the stack; any other token is consumed here and leaves the
\* stack as it is.
handle_in_body(c, t, garbage, fails) ==
    LET type == element_type_from_name(t.name) IN
    CASE t.type = "START_TAG" /\ type = "SELECT" ->
           Done([insert_element(c, "SELECT") EXCEPT !.mode = IN_SELECT])
      [] t.type = "CHARACTER" -> Done(append_leaf(c, "append_text"))
      [] t.type = "COMMENT" -> Done(append_leaf(c, "append_comment"))
      [] t.type = "EOF" -> Done(ReleaseAll(c, garbage, fails))
      [] OTHER -> Done(c)

\* hubbub_treebuilder_destroy: every outstanding node reference is released.
treebuilder_destroy(c) == ReleaseAll(c, NoNode, {})

\* The token handler type: a handler returns nothing to the tokeniser,
\* whatever the tree handler returned to it.
hubbub_token_handler(handlerResults) == "void"

\* What hubbub_tokeniser_run returns after handing out a token: an error a
\* handler reports is surfaced; a handler that reports nothing leaves OK.
tokeniser_run_result(handlerReturn) ==
    IF handlerReturn \in {OK, "void"} THEN OK ELSE handlerReturn

\* The tail of the three parse calls: the append/insert error if any, else
\* the tokeniser's error if any, else OK.
ParseReturn(appendErr, runErr) ==
    IF appendErr # OK THEN appendErr
    ELSE IF runErr # OK THEN runErr ELSE OK

\* --------------------------------------------------- parser shell (parser.c)
NULL == "NULL"
ALIVE == "alive"

Life(op, what) == [op |-> op, what |-> what]

\* A parser object and its three components, threaded through one API call.
P(pa, st, tk, t, o, log) ==
    [parser |-> pa, stream |-> st, tok |-> tk, tb |-> t, opts |-> o,
     log |-> log]

NoParser == P(NULL, NULL, NULL, NULL, {}, <<>>)

CreateFailures == {"none", "parser", "stream", "tok", "tb"}

\* Mutant of hubbub_parser_create: a failed treebuilder creation destroys
\* the tokeniser but leaves the input stream.
hubbub_parser_create_LeakStream(alloc, failAt) ==
    IF alloc = NULL \/ failAt = "parser" THEN NoParser
    ELSE IF failAt = "stream"
    THEN [NoParser EXCEPT !.log = <<Life("create", "parser"),
                                   Life("destroy", "parser")>>]
    ELSE IF failAt = "tok"
    THEN [NoParser EXCEPT !.log = <<Life("create", "parser"),
                                   Life("create", "stream"),
                                   Life("destroy", "stream"),
                                   Life("destroy", "parser")>>]
    ELSE IF failAt = "tb"
    THEN [NoParser EXCEPT !.log = <<Life("create", "parser"),
                                   Life("create", "stream"),
                                   Life("create", "tok"),
                                   Life("destroy", "tok"),
                                   Life("destroy", "parser")>>]
    ELSE P(ALIVE, ALIVE, ALIVE, ALIVE, {},
           <<Life("create", "parser"), Life("create", "stream"),
             Life("create", "tok"), Life("create", "tb")>>)

\* hubbub_parser_create: `alloc` is the allocator argument ("NULL" or not),
\* `failAt` the allocation or creation that fails, if any.
hubbub_parser_create(alloc, failAt) ==
    IF alloc = NULL THEN NoParser
    ELSE IF failAt = "parser" THEN NoParser
    ELSE IF failAt = "stream"
    THEN [NoParser EXCEPT !.log = <<Life("create", "parser"),
                                   Life("destroy", "parser")>>]
    ELSE IF failAt = "tok"
    THEN [NoParser EXCEPT !.log = <<Life("create", "parser"),
                                   Life("create", "stream"),
                                   Life("destroy", "stream"),
                                   Life("destroy", "parser")>>]
    ELSE IF failAt = "tb"
    THEN [NoParser EXCEPT !.log = <<Life("create", "parser"),
                                   Life("create", "stream"),
                                   Life("create", "tok"),
                                   Life("destroy", "tok"),
                                   Life("destroy", "stream"),
                                   Life("destroy", "parser")>>]
    ELSE P(ALIVE, ALIVE, ALIVE, ALIVE, {},
           <<Life("create", "parser"), Life("create", "stream"),
             Life("create", "tok"), Life("create", "tb")>>)

\* hubbub_treebuilder_destroy / hubbub_tokeniser_destroy /
\* hubbub_inputstream_destroy on a component pointer: NULL is left alone.
DestroyComponent(log, what, ptr) ==
    IF ptr = NULL THEN log ELSE Append(log, Life("destroy", what))

\* hubbub_parser_destroy.
hubbub_parser_destroy(p) ==
    IF p.parser = NULL THEN p
    ELSE LET l1 == DestroyComponent(p.log, "tb", p.tb)
             l2 == DestroyComponent(l1, "tok", p.tok)
             l3 == DestroyComponent(l2, "stream", p.stream)
         IN P("freed", NULL, NULL, NULL, {},
              Append(l3, Life("destroy", "parser")))

\* hubbub_treebuilder_setopt / hubbub_tokeniser_setopt: the component
\* registers the option unless it rejects it (`res` is what it returns).
ComponentSetopt(p, comp, opt, res) ==
    IF res = OK THEN [p EXCEPT !.opts = @ \cup {<<comp, opt>>}] ELSE p

\* Mutant of DestroyTreebuilder: parser->tb is left pointing at the
\* destroyed treebuilder.
DestroyTreebuilder_KeepPointer(p) ==
    [p EXCEPT !.log = Append(@, Life("destroy", "tb")),
              !.opts = {o \in @ : o[1] # "tb"}]

\* Mutant of DestroyTreebuilder: the treebuilder is left in place.
DestroyTreebuilder_Skip(p) == p

\* setopt TOKEN_HANDLER, first half: the default treebuilder is destroyed
\* and the pointer cleared.
DestroyTreebuilder(p) ==
    [p EXCEPT !.log = Append(@, Life("destroy", "tb")),
              !.tb = NULL,
              !.opts = {o \in @ : o[1] # "tb"}]

OptTypes == {"TOKEN_HANDLER", "BUFFER_HANDLER", "ERROR_HANDLER",
             "CONTENT_MODEL", "TREE_HANDLER", "DOCUMENT_NODE"}

\* Mutant of hubbub_parser_setopt: ERROR_HANDLER goes to the tokeniser even
\* when the treebuilder has rejected it.
hubbub_parser_setopt_ErrorHandlerBoth(p, type, params, tbRes, tokRes) ==
    IF p.parser = NULL \/ params = NULL THEN [p |-> p, result |-> BADPARM]
    ELSE CASE type = "TOKEN_HANDLER" ->
                LET p1 == IF p.tb # NULL THEN DestroyTreebuilder(p) ELSE p IN
                [p |-> ComponentSetopt(p1, "tok", type, tokRes),
                 result |-> tokRes]
           [] type = "BUFFER_HANDLER" ->
                IF p.tb # NULL
                THEN [p |-> ComponentSetopt(p, "tb", type, tbRes),
                      result |-> tbRes]
                ELSE [p |-> ComponentSetopt(p, "tok", type, tokRes),
                      result |-> tokRes]
           [] type = "ERROR_HANDLER" ->
                LET r1 == IF p.tb # NULL THEN tbRes ELSE OK
                    p1 == IF p.tb # NULL
                          THEN ComponentSetopt(p, "tb", type, tbRes) ELSE p
                IN [p |-> ComponentSetopt(p1, "tok", type, tokRes),
                    result |-> IF r1 = OK THEN tokRes ELSE r1]
           [] type = "CONTENT_MODEL" ->
                [p |-> ComponentSetopt(p, "tok", type, tokRes),
                 result |-> tokRes]
           [] type \in {"TREE_HANDLER", "DOCUMENT_NODE"} ->
                IF p.tb # NULL
                THEN [p |-> ComponentSetopt(p, "tb", type, tbRes),
                      result |-> tbRes]
                ELSE [p |-> p, result |-> OK]
           [] OTHER -> [p |-> p, result |-> INVALID]

\* hubbub_parser_setopt: `params` is "NULL" or not; tbRes / tokRes are what
\* the treebuilder's / tokeniser's setopt returns if it gets called.
\* Returns the parser and the result.
hubbub_parser_setopt(p, type, params, tbRes, tokRes) ==
    IF p.parser = NULL \/ params = NULL THEN [p |-> p, result |-> BADPARM]
    ELSE CASE type = "TOKEN_HANDLER" ->
                LET p1 == IF p.tb # NULL THEN DestroyTreebuilder(p) ELSE p IN
                [p |-> ComponentSetopt(p1, "tok", type, tokRes),
                 result |-> tokRes]
           [] type = "BUFFER_HANDLER" ->
                IF p.tb # NULL
                THEN [p |-> ComponentSetopt(p, "tb", type, tbRes),
                      result |-> tbRes]
                ELSE [p |-> ComponentSetopt(p, "tok", type, tokRes),
                      result |-> tokRes]
           [] type = "ERROR_HANDLER" ->
                LET r1 == IF p.tb # NULL THEN tbRes ELSE OK
                    p1 == IF p.tb # NULL
                          THEN ComponentSetopt(p, "tb", type, tbRes) ELSE p
                IN IF r1 = OK
                   THEN [p |-> ComponentSetopt(p1, "tok", type, tokRes),
                         result |-> tokRes]
                   ELSE [p |-> p1, result |-> r1]
           [] type = "CONTENT_MODEL" ->
                [p |-> ComponentSetopt(p, "tok", type, tokRes),
                 result |-> tokRes]
           [] type \in {"TREE_HANDLER", "DOCUMENT_NODE"} ->
                IF p.tb # NULL
                THEN [p |-> ComponentSetopt(p, "tb", type, tbRes),
                      result |-> tbRes]
                ELSE [p |-> p, result |-> OK]
           [] OTHER -> [p |-> p, result |-> INVALID]

\* ------------------------------------------- input stream and tokeniser
Bytes == {"<", ">", "a"}

\* Byte strings of length 0..n.
RECURSIVE BytesUpTo(_)
BytesUpTo(n) ==
    IF n = 0 THEN {<<>>}
    ELSE LET shorter == BytesUpTo(n - 1) IN
         shorter \cup {Append(b, x) : b \in {y \in shorter : Len(y) = n - 1},
                                      x \in Bytes}

\* The data argument of parse_chunk: a pointer to a byte string (its length
\* is the len argument) or a NULL pointer.
NullData == [ptr |-> NULL, bytes |-> <<>>]

ChunkArgs ==
    {[ptr |-> ALIVE, bytes |-> b] : b \in BytesUpTo(MaxChunk)} \cup {NullData}

\* A new stream owns its (empty) byte buffer.
StreamInit == [bytes |-> <<>>, cursor |-> 0, had_eof |-> FALSE,
               owner |-> "stream"]

\* hubbub_inputstream_append: bytes are added at the end; a length of zero
\* means end-of-input. `res` is NOMEM when the stream cannot grow.
hubbub_inputstream_append(s, data, len, res) ==
    IF res # OK THEN s
    ELSE IF len = 0 THEN [s EXCEPT !.had_eof = TRUE]
    ELSE [s EXCEPT !.bytes = @ \o SubSeq(data.bytes, 1, len)]

\* hubbub_inputstream_insert: bytes are spliced in at the read cursor; the
\* tail not yet consumed follows them.
hubbub_inputstream_insert(s, data, len, res) ==
    IF res # OK THEN s
    ELSE [s EXCEPT !.bytes = SubSeq(@, 1, s.cursor)
                             \o SubSeq(data.bytes, 1, len)
                             \o SubSeq(@, s.cursor + 1, Len(@))]

\* hubbub_inputstream_claim_buffer: the byte buffer becomes the caller's.
hubbub_inputstream_claim_buffer(s) == [s EXCEPT !.owner = "caller"]

TokInit == [state |-> "data", name |-> <<>>]

CharTok(c) == [type |-> "CHARACTER", data |-> <<c>>]
TagTok(name) == [type |-> "START_TAG", data |-> name]
EofTok == [type |-> "EOF", data |-> <<>>]

\* Emission batching: a character joins the character token emitted just
\* before it in the same run.
EmitChar(out, c) ==
    IF out # <<>> /\ out[Len(out)].type = "CHARACTER"
    THEN [out EXCEPT ![Len(out)].data = Append(@, c)]
    ELSE Append(out, CharTok(c))

\* One character consumed in the given tokeniser state.
TokStep(t, out, c) ==
    CASE t.state = "data" ->
           IF c = "<" THEN [t |-> [t EXCEPT !.state = "tag_open"], out |-> out]
           ELSE [t |-> t, out |-> EmitChar(out, c)]
      [] t.state = "tag_open" ->
           IF c = "a"
           THEN [t |-> [state |-> "tag_name", name |-> <<c>>], out |-> out]
           ELSE IF c = "<" THEN [t |-> t, out |-> EmitChar(out, "<")]
           ELSE [t |-> TokInit, out |-> EmitChar(EmitChar(out, "<"), c)]
      [] t.state = "tag_name" ->
           IF c = ">" THEN [t |-> TokInit, out |-> Append(out, TagTok(t.name))]
           ELSE [t |-> [t EXCEPT !.name = Append(@, c)], out |-> out]

\* What the tokeniser emits when the stream reports Eof.
TokAtEof(t, out) ==
    Append(IF t.state = "tag_open" THEN EmitChar(out, "<") ELSE out, EofTok)

\* The tokeniser's loop: it pulls characters until the stream reports
\* NeedsMoreData (it returns with its state kept) or Eof (it emits the
\* final Eof token and returns).
RECURSIVE TokLoop(_, _, _)
TokLoop(s, t, out) ==
    IF s.cursor < Len(s.bytes)
    THEN LET r == TokStep(t, out, s.bytes[s.cursor + 1]) IN
         TokLoop([s EXCEPT !.cursor = @ + 1], r.t, r.out)
    ELSE IF s.had_eof THEN [s |-> s, t |-> TokInit, out |-> TokAtEof(t, out)]
    ELSE [s |-> s, t |-> t, out |-> out]

\* hubbub_tokeniser_run: `runRes` is NOMEM when the tokeniser cannot
\* allocate and gives up before consuming anything.
hubbub_tokeniser_run(s, t, runRes) ==
    IF runRes # OK THEN [s |-> s, t |-> t, out |-> <<>>, result |-> runRes]
    ELSE LET r == TokLoop(s, t, <<>>) IN
         [s |-> r.s, t |-> r.t, out |-> r.out,
          result |-> tokeniser_run_result(hubbub_token_handler(r.out))]

\* The input side of a parser, threaded through one call.
In(pa, s, t, d) == [parser |-> pa, s |-> s, t |-> t, delivered |-> d]

Back(s, t, d, res, ran) ==
    [s |-> s, t |-> t, delivered |-> d, result |-> res, ran |-> ran]

\* Append, then run the tokeniser unless the append failed.
AppendThenRun(i, data, len, appendRes, runRes) ==
    LET s1 == hubbub_inputstream_append(i.s, data, len, appendRes) IN
    IF appendRes # OK
    THEN Back(s1, i.t, i.delivered, ParseReturn(appendRes, OK), FALSE)
    ELSE LET r == hubbub_tokeniser_run(s1, i.t, runRes) IN
         Back(r.s, r.t, i.delivered \o r.out,
              ParseReturn(appendRes, r.result), TRUE)

\* Mutant of hubbub_parser_parse_chunk: the append's error is not looked at
\* and the tokeniser runs regardless.
hubbub_parser_parse_chunk_IgnoreAppendError(i, data, appendRes, runRes) ==
    IF i.parser = NULL \/ data.ptr = NULL
    THEN Back(i.s, i.t, i.delivered, BADPARM, FALSE)
    ELSE LET s1 == hubbub_inputstream_append(i.s, data, Len(data.bytes), appendRes)
             r == hubbub_tokeniser_run(s1, i.t, runRes)
         IN Back(r.s, r.t, i.delivered \o r.out, r.result, TRUE)

\* hubbub_parser_parse_chunk(parser, data, len) with len = Len(data.bytes).
hubbub_parser_parse_chunk(i, data, appendRes, runRes) ==
    IF i.parser = NULL \/ data.ptr = NULL
    THEN Back(i.s, i.t, i.delivered, BADPARM, FALSE)
    ELSE AppendThenRun(i, data, Len(data.bytes), appendRes, runRes)

\* hubbub_parser_completed: appends (NULL, 0) and runs the tokeniser.
hubbub_parser_completed(i, appendRes, runRes) ==
    IF i.parser = NULL THEN Back(i.s, i.t, i.delivered, BADPARM, FALSE)
    ELSE AppendThenRun(i, NullData, 0, appendRes, runRes)

\* --------------------------------------- the sample tree handler (hubbub.c)
NodeIds == 1..MaxLinkNodes

\* The handle (void *)1 that stands for the document in append_child.
DocumentNode == -1

\* A node_t fresh from calloc, with its type and content set.
Node(type, content) ==
    [type |-> type, content |-> content,
     next |-> 0, prev |-> 0, child |-> 0, parent |-> 0]

FreeNode == Node("FREE", <<>>)

\* The tree handler's world: the nodes and the global Document.
Tree(h, d) == [heap |-> h, doc |-> d]

Allocated(h) == {n \in NodeIds : h[n].type # "FREE"}

\* calloc(1, sizeof *node): the next unused node.
NewNode(h) == CHOOSE n \in NodeIds \ Allocated(h) :
                  \A m \in NodeIds \ Allocated(h) : n <= m

\* The nodes from n onwards along the next pointers.
RECURSIVE Chain(_, _, _)
Chain(h, n, fuel) ==
    IF n = 0 \/ fuel = 0 THEN <<>>
    ELSE <<n>> \o Chain(h, h[n].next, fuel - 1)

\* The children of a node (or of the document), first to last.
Children(t, p) ==
    Chain(t.heap, IF p = DocumentNode THEN t.doc ELSE t.heap[p].child,
          MaxLinkNodes)

\* The nodes reachable from the given ones through child and next pointers.
RECURSIVE Reach(_, _)
Reach(h, set) ==
    LET links == {h[n].child : n \in set} \cup {h[n].next : n \in set}
        more == set \cup (links \ {0})
    IN IF more = set THEN set ELSE Reach(h, more)

\* The nodes below a node.
Below(h, n) == Reach(h, {h[n].child} \ {0})

\* create_element.
create_element(t) ==
    LET n == NewNode(t.heap) IN
    [heap |-> [t.heap EXCEPT ![n] = Node("ELEMENT", <<>>)], doc |-> t.doc,
     result |-> n]

\* create_text.
create_text(t, data) ==
    LET n == NewNode(t.heap) IN
    [heap |-> [t.heap EXCEPT ![n] = Node("CHARACTER", data)], doc |-> t.doc,
     result |-> n]

\* Mutant of append_child: text is never joined to a text node before it.
append_child_NoCoalesce(t, parent, child) ==
    LET h1 == [t.heap EXCEPT ![child].parent = parent,
                             ![child].next = 0, ![child].prev = 0]
        first == IF parent = DocumentNode THEN t.doc ELSE h1[parent].child
    IN IF first = 0
       THEN [heap |-> IF parent = DocumentNode THEN h1
                      ELSE [h1 EXCEPT ![parent].child = child],
             doc |-> IF parent = DocumentNode THEN child ELSE t.doc,
             result |-> child]
       ELSE LET kids == Chain(h1, first, MaxLinkNodes)
                insert == kids[Len(kids)]
            IN [heap |-> [h1 EXCEPT ![insert].next = child,
                                    ![child].prev = insert],
                doc |-> t.doc, result |-> child]

\* append_child.
append_child(t, parent, child) ==
    LET h1 == [t.heap EXCEPT ![child].parent = parent,
                             ![child].next = 0, ![child].prev = 0]
        first == IF parent = DocumentNode THEN t.doc ELSE h1[parent].child
    IN IF first = 0
       THEN [heap |-> IF parent = DocumentNode THEN h1
                      ELSE [h1 EXCEPT ![parent].child = child],
             doc |-> IF parent = DocumentNode THEN child ELSE t.doc,
             result |-> child]
       ELSE LET kids == Chain(h1, first, MaxLinkNodes)
                insert == kids[Len(kids)]
            IN IF h1[child].type = "CHARACTER" /\ h1[insert].type = "CHARACTER"
               THEN [heap |-> [h1 EXCEPT ![insert].content =
                                             @ \o h1[child].content],
                     doc |-> t.doc, result |-> insert]
               ELSE [heap |-> [h1 EXCEPT ![insert].next = child,
                                         ![child].prev = insert],
                     doc |-> t.doc, result |-> child]

\* How many nodes clone_node allocates.
RECURSIVE CloneCost(_, _, _)
CloneCost(h, node, deep) ==
    IF ~deep THEN 1
    ELSE 1 + (IF h[node].next # 0 THEN CloneCost(h, h[node].next, TRUE) ELSE 0)
           + (IF h[node].child # 0 THEN CloneCost(h, h[node].child, TRUE) ELSE 0)

\* clone_node: the struct is copied, its four links cleared; a deep clone
\* then clones old_node->next and old_node->child recursively.
RECURSIVE clone_node(_, _, _)
clone_node(t, node, deep) ==
    LET old == t.heap[node]
        new == NewNode(t.heap)
        h1 == [t.heap EXCEPT ![new] = [old EXCEPT !.child = 0, !.parent = 0,
                                                  !.next = 0, !.prev = 0]]
    IN IF ~deep THEN [heap |-> h1, doc |-> t.doc, result |-> new]
       ELSE LET h2 == IF old.next # 0
                      THEN LET r == clone_node(Tree(h1, t.doc), old.next, TRUE)
                           IN [r.heap EXCEPT ![new].next = r.result,
                                             ![r.result].prev = new]
                      ELSE h1
                h3 == IF old.child # 0
                      THEN LET r == clone_node(Tree(h2, t.doc), old.child, TRUE)
                           IN [r.heap EXCEPT ![new].child = r.result,
                                             ![r.result].parent = new]
                      ELSE h2
            IN [heap |-> h3, doc |-> t.doc, result |-> new]

\* Set the parent of every node of a chain.
RECURSIVE SetParents(_, _, _, _)
SetParents(h, kids, parent, fuel) ==
    IF kids = 0 \/ fuel = 0 THEN h
    ELSE SetParents([h EXCEPT ![kids].parent = parent], h[kids].next, parent,
                    fuel - 1)

\* Mutant of reparent_children: the children are put before those the new
\* parent already has.
reparent_children_Prepend(t, node, new_parent) ==
    LET kids == t.heap[node].child IN
    IF kids = 0 THEN [heap |-> t.heap, doc |-> t.doc, result |-> OK]
    ELSE LET h1 == [t.heap EXCEPT ![node].child = 0]
             had == h1[new_parent].child
             moved == Chain(h1, kids, MaxLinkNodes)
             last == moved[Len(moved)]
             h2 == IF had = 0 THEN [h1 EXCEPT ![new_parent].child = kids]
                   ELSE [h1 EXCEPT ![new_parent].child = kids,
                                   ![last].next = had, ![had].prev = last]
         IN [heap |-> SetParents(h2, kids, new_parent, Len(moved)),
             doc |-> t.doc, result |-> OK]

\* reparent_children.
reparent_children(t, node, new_parent) ==
    LET kids == t.heap[node].child IN
    IF kids = 0 THEN [heap |-> t.heap, doc |-> t.doc, result |-> OK]
    ELSE LET h1 == [t.heap EXCEPT ![node].child = 0]
             first == h1[new_parent].child
             h2 == IF first = 0 THEN [h1 EXCEPT ![new_parent].child = kids]
                   ELSE LET had == Chain(h1, first, MaxLinkNodes)
                            insert == had[Len(had)]
                        IN [h1 EXCEPT ![insert].next = kids,
                                      ![kids].prev = insert]
         IN [heap |-> SetParents(h2, kids, new_parent, MaxLinkNodes),
             doc |-> t.doc, result |-> OK]

\* insert_before(parent, child, ref_child) with an element as parent: a text
\* child is joined onto a text node just before ref_child; otherwise the
\* child is linked in before ref_child.
insert_before(t, parent, child, ref_child) ==
    LET h == t.heap
        before == h[ref_child].prev
    IN IF h[child].type = "CHARACTER" /\ before # 0
          /\ h[before].type = "CHARACTER"
       THEN [heap |-> [h EXCEPT ![before].content = @ \o h[child].content],
             doc |-> t.doc, result |-> before]
       ELSE LET h1 == [h EXCEPT ![child].parent = parent,
                                ![child].prev = before,
                                ![child].next = ref_child,
                                ![ref_child].prev = child]
            IN [heap |-> IF before # 0 THEN [h1 EXCEPT ![before].next = child]
                         ELSE [h1 EXCEPT ![parent].child = child],
                doc |-> t.doc, result |-> child]

\* remove_child(parent, child) with an element as parent.
remove_child(t, parent, child) ==
    LET h == t.heap
        c == h[child]
        h1 == IF h[parent].child = child
              THEN [h EXCEPT ![parent].child = c.next] ELSE h
        h2 == IF c.prev # 0 THEN [h1 EXCEPT ![c.prev].next = c.next] ELSE h1
        h3 == IF c.next # 0 THEN [h2 EXCEPT ![c.next].prev = c.prev] ELSE h2
    IN [heap |-> [h3 EXCEPT ![child].next = 0, ![child].prev = 0,
                            ![child].parent = 0],
        doc |-> t.doc, result |-> child]

\* Mutant of hubbub_parser_parse_extraneous_chunk: the bytes are inserted
\* and left for a later call to tokenise.
hubbub_parser_parse_extraneous_chunk_Deferred(i, data, insertRes, runRes) ==
    IF i.parser = NULL \/ data.ptr = NULL
    THEN Back(i.s, i.t, i.delivered, BADPARM, FALSE)
    ELSE Back(hubbub_inputstream_insert(i.s, data, Len(data.bytes), insertRes),
              i.t, i.delivered, ParseReturn(insertRes, OK), FALSE)

\* hubbub_parser_parse_extraneous_chunk(parser, data, len) with
\* len = Len(data.bytes): insert, then run the tokeniser unless the insert
\* failed.
hubbub_parser_parse_extraneous_chunk(i, data, insertRes, runRes) ==
    IF i.parser = NULL \/ data.ptr = NULL
    THEN Back(i.s, i.t, i.delivered, BADPARM, FALSE)
    ELSE LET s1 == hubbub_inputstream_insert(i.s, data, Len(data.bytes),
                                             insertRes) IN
         IF insertRes # OK
         THEN Back(s1, i.t, i.delivered, ParseReturn(insertRes, OK), FALSE)
         ELSE LET r == hubbub_tokeniser_run(s1, i.t, runRes) IN
              Back(r.s, r.t, i.delivered \o r.out,
                   ParseReturn(insertRes, r.result), TRUE)

\* Mutant of hubbub_parser_claim_buffer: only the parser argument is
\* looked at.
hubbub_parser_claim_buffer_NoArgCheck(i, buffer, len) ==
    IF i.parser = NULL
    THEN Back(i.s, i.t, i.delivered, BADPARM, FALSE)
    ELSE Back(hubbub_inputstream_claim_buffer(i.s), i.t, i.delivered, OK,
              FALSE)

\* hubbub_parser_claim_buffer(parser, buffer, len): buffer and len are the
\* out-pointers ("NULL" or not).
hubbub_parser_claim_buffer(i, buffer, len) ==
    IF i.parser = NULL \/ buffer = NULL \/ len = NULL
    THEN Back(i.s, i.t, i.delivered, BADPARM, FALSE)
    ELSE Back(hubbub_inputstream_claim_buffer(i.s), i.t, i.delivered, OK,
              FALSE)

\* The tokens of a run that the treebuilder gets: the treebuilder is the
\* tokeniser's token handler from its creation to its destruction.
TreebuilderTokens(tbPtr, out) == IF tbPtr # NULL THEN out ELSE <<>>

\* ================================================================ actions
NoToken == [type |-> "NONE", name |-> "none"]

HistInit == [accepted |-> <<>>, okAppends |-> 0, runs |-> 0, ncalls |-> 0,
             nCompleted |-> 0, allOk |-> TRUE, lastCall |-> "none",
             lastAppend |-> "none", tbTokens |-> <<>>, touched |-> FALSE]

InputIdle ==
    /\ inputstream = StreamInit
    /\ tokeniser = TokInit
    /\ delivered = <<>>
    /\ hist = HistInit

\* No node allocated yet, no document child.
TreeIdle ==
    /\ heap = [n \in NodeIds |-> FreeNode]
    /\ Document = 0
    /\ treeCalls = 0

TreebuilderIdle ==
    /\ element_stack = <<>>
    /\ mode = "INITIAL"
    /\ token = NoToken
    /\ reprocess = FALSE
    /\ lastHandler = "none"
    /\ refs = [n \in Nodes |-> 0]
    /\ tlog = <<>>
    /\ nextNode = 1
    /\ tbActive = FALSE
    /\ eofDone = FALSE
    /\ callResult = "none"

\* ---- the treebuilder receiving tokens
\* Either a document whose html and body elements are open and whose mode
\* is "in body", or the fragment case: only the root html element is open
\* and the mode, reset from a select context element, is "in select".
InitTreebuilder ==
    /\ \/ /\ element_stack = <<[type |-> "HTML", node |-> 1],
                               [type |-> "BODY", node |-> 2]>>
          /\ mode = IN_BODY
          /\ refs = [n \in Nodes |-> IF n <= 2 THEN 1 ELSE 0]
          /\ nextNode = 3
       \/ /\ element_stack = <<[type |-> "HTML", node |-> 1]>>
          /\ mode = IN_SELECT
          /\ refs = [n \in Nodes |-> IF n = 1 THEN 1 ELSE 0]
          /\ nextNode = 2
    /\ token = NoToken
    /\ reprocess = FALSE
    /\ lastHandler = "none"
    /\ tlog = <<>>
    /\ tbActive = TRUE
    /\ eofDone = FALSE
    /\ callResult = "none"
    /\ parser = ALIVE /\ stream = ALIVE /\ tok = ALIVE /\ tb = ALIVE
    /\ opts = {}
    /\ lifeLog = hubbub_parser_create(ALIVE, "none").log
    /\ result = "none"
    /\ InputIdle
    /\ TreeIdle

Inserts(t) == t.type = "START_TAG" /\ t.name \in {"option", "optgroup", "select"}

\* The tokeniser hands a token to the treebuilder inside a parse call: the
\* dispatch loop starts with reprocess = true.
DeliverToken(t) ==
    /\ tbActive /\ ~reprocess /\ ~eofDone
    /\ Inserts(t) => nextNode <= MaxNodes
    /\ token' = t
    /\ reprocess' = TRUE
    /\ lastHandler' = "none"
    /\ tlog' = <<>>
    /\ callResult' = "running"
    /\ UNCHANGED <<element_stack, mode, refs, nextNode, tbActive, eofDone>>
    /\ UNCHANGED <<shellVars, inputVars, treeVars>>

\* What one pass of the dispatch loop leaves behind.
AfterHandler(r, m) ==
    /\ element_stack' = r.c.stack
    /\ mode' = r.c.mode
    /\ refs' = r.c.refs
    /\ tlog' = r.c.log
    /\ nextNode' = r.c.next
    /\ reprocess' = r.reprocess
    /\ lastHandler' = m
    /\ eofDone' = (eofDone \/ (~r.reprocess /\ token.type = "EOF"))
    /\ callResult' = IF r.reprocess THEN "running"
                     ELSE ParseReturn(OK, tokeniser_run_result(
                              hubbub_token_handler(r.c.log)))
    /\ UNCHANGED <<token, tbActive>>
    /\ UNCHANGED <<shellVars, inputVars, treeVars>>

\* One pass of the dispatch loop in "in select" mode.
DispatchInSelect ==
    /\ tbActive /\ reprocess /\ mode = IN_SELECT
    /\ \E garbage \in Nodes \cup {NoNode},
          fails \in SUBSET (1..Len(element_stack)) :
          AfterHandler(handle_in_select(
              Ctx(element_stack, mode, refs, tlog, nextNode),
              token, garbage, fails), IN_SELECT)

\* One pass of the dispatch loop in "in body" mode.
DispatchInBody ==
    /\ tbActive /\ reprocess /\ mode = IN_BODY
    /\ \E garbage \in Nodes \cup {NoNode},
          fails \in SUBSET (1..Len(element_stack)) :
          AfterHandler(handle_in_body(
              Ctx(element_stack, mode, refs, tlog, nextNode),
              token, garbage, fails), IN_BODY)

\* hubbub_parser_destroy on a parser whose treebuilder holds open elements.
DestroyWithTreebuilder ==
    /\ tbActive /\ ~reprocess
    /\ LET c == treebuilder_destroy(
                    Ctx(element_stack, mode, refs, <<>>, nextNode))
           p == hubbub_parser_destroy(P(parser, stream, tok, tb, opts, lifeLog))
       IN /\ element_stack' = c.stack
          /\ refs' = c.refs
          /\ tlog' = c.log
          /\ parser' = p.parser /\ stream' = p.stream /\ tok' = p.tok
          /\ tb' = p.tb /\ opts' = p.opts /\ lifeLog' = p.log
    /\ tbActive' = FALSE
    /\ UNCHANGED <<mode, token, reprocess, lastHandler, nextNode, eofDone,
                   callResult, result>>
    /\ UNCHANGED <<inputVars, treeVars>>

NextTreebuilder ==
    \/ \E t \in Tokens : DeliverToken(t)
    \/ DispatchInSelect
    \/ DispatchInBody
    \/ DestroyWithTreebuilder

SpecTreebuilder == InitTreebuilder /\ [][NextTreebuilder]_vars

\* ---- the parser shell: creation, options, destruction
InitShell ==
    /\ parser = NULL /\ stream = NULL /\ tok = NULL /\ tb = NULL
    /\ opts = {}
    /\ lifeLog = <<>>
    /\ result = "none"
    /\ InputIdle
    /\ TreebuilderIdle
    /\ TreeIdle

SetShell(p) ==
    /\ parser' = p.parser /\ stream' = p.stream /\ tok' = p.tok
    /\ tb' = p.tb /\ opts' = p.opts /\ lifeLog' = p.log

\* hubbub_parser_create; a new parser starts a new life log.
Create ==
    /\ parser # ALIVE
    /\ \E alloc \in {NULL, ALIVE}, failAt \in CreateFailures :
          LET p == hubbub_parser_create(alloc, failAt) IN
          /\ SetShell(p)
          /\ result' = p.parser
    /\ inputstream' = StreamInit
    /\ tokeniser' = TokInit
    /\ delivered' = <<>>
    /\ hist' = HistInit
    /\ UNCHANGED <<tbVars, treeVars>>

\* hubbub_parser_setopt with the option type drawn from `types`.
SetoptFrom(types) ==
    /\ parser \in {ALIVE, NULL}
    /\ \E type \in types, params \in {NULL, ALIVE},
          tbRes \in {OK, BADPARM}, tokRes \in {OK, BADPARM} :
          LET r == hubbub_parser_setopt(
                       P(parser, stream, tok, tb, opts, lifeLog),
                       type, params, tbRes, tokRes) IN
          /\ SetShell(r.p)
          /\ result' = r.result
    /\ UNCHANGED <<tbVars, inputVars, treeVars>>

\* hubbub_parser_setopt.
Setopt == SetoptFrom(OptTypes \cup {"NO_SUCH_OPTION"})

\* hubbub_parser_destroy; the stream and the tokeniser go with the parser.
Destroy ==
    /\ parser \in {ALIVE, NULL}
    /\ SetShell(hubbub_parser_destroy(
                    P(parser, stream, tok, tb, opts, lifeLog)))
    /\ result' = "none"
    /\ inputstream' = StreamInit
    /\ tokeniser' = TokInit
    /\ delivered' = <<>>
    /\ hist' = HistInit
    /\ UNCHANGED <<tbVars, treeVars>>

NextShell == Create \/ Setopt \/ Destroy

SpecShell == InitShell /\ [][NextShell]_vars

\* ---- the parser fed with chunks
\* Bookkeeping of one input call: `reached` says whether the call's
\* arguments were valid, so that it reached the stream's append, and
\* `appendRes` what the append then returned.
Noted(call, data, reached, appendRes, r) ==
    LET appendOk == reached /\ appendRes = OK IN
    [accepted |-> IF appendOk /\ call = "parse_chunk"
                  THEN hist.accepted \o data.bytes ELSE hist.accepted,
     okAppends |-> hist.okAppends + (IF appendOk THEN 1 ELSE 0),
     runs |-> hist.runs + (IF r.ran THEN 1 ELSE 0),
     ncalls |-> hist.ncalls + 1,
     nCompleted |-> hist.nCompleted + (IF call = "completed" THEN 1 ELSE 0),
     allOk |-> hist.allOk /\ r.result = OK,
     lastCall |-> call,
     lastAppend |-> IF reached THEN appendRes ELSE "none",
     \* the tokens this call emitted, as far as the treebuilder got them
     tbTokens |-> hist.tbTokens \o TreebuilderTokens(tb,
                      SubSeq(r.delivered, Len(delivered) + 1, Len(r.delivered))),
     \* bytes were written to or read from a buffer the caller has claimed
     touched |-> hist.touched \/ (/\ inputstream.owner = "caller"
                                  /\ \/ r.s.bytes # inputstream.bytes
                                     \/ r.s.cursor # inputstream.cursor)]

SetInput(r) ==
    /\ inputstream' = r.s
    /\ tokeniser' = r.t
    /\ delivered' = r.delivered
    /\ result' = r.result

\* hubbub_parser_parse_chunk with the data drawn from `chunks`.
ParseChunkFrom(chunks) ==
    /\ parser \in {ALIVE, NULL}
    /\ hist.ncalls < MaxCalls
    /\ \E data \in chunks, appendRes \in {OK, NOMEM}, runRes \in {OK, NOMEM} :
          LET r == hubbub_parser_parse_chunk(
                       In(parser, inputstream, tokeniser, delivered),
                       data, appendRes, runRes) IN
          /\ SetInput(r)
          /\ hist' = Noted("parse_chunk", data,
                           parser # NULL /\ data.ptr # NULL, appendRes, r)
    /\ UNCHANGED <<parser, stream, tok, tb, opts, lifeLog>>
    /\ UNCHANGED <<tbVars, treeVars>>

\* hubbub_parser_parse_chunk.
ParseChunk == ParseChunkFrom(ChunkArgs)

\* hubbub_parser_completed.
Completed ==
    /\ parser \in {ALIVE, NULL}
    /\ hist.ncalls < MaxCalls
    /\ \E appendRes \in {OK, NOMEM}, runRes \in {OK, NOMEM} :
          LET r == hubbub_parser_completed(
                       In(parser, inputstream, tokeniser, delivered),
                       appendRes, runRes) IN
          /\ SetInput(r)
          /\ hist' = Noted("completed", NullData,
                           parser # NULL, appendRes, r)
    /\ UNCHANGED <<parser, stream, tok, tb, opts, lifeLog>>
    /\ UNCHANGED <<tbVars, treeVars>>

NextInput == Create \/ ParseChunk \/ Completed \/ Destroy

SpecInput == InitShell /\ [][NextInput]_vars

\* ---- the whole public interface of the parser
\* The options that decide where tokens go, and a type that is no option.
HandlerOptTypes ==
    {"TOKEN_HANDLER", "TREE_HANDLER", "DOCUMENT_NODE", "NO_SUCH_OPTION"}

SetoptHandlers == SetoptFrom(HandlerOptTypes)

\* The data arguments of the parse calls here: NULL, no bytes, one byte
\* of text, one byte that opens a tag.
ApiChunks ==
    {NullData, [ptr |-> ALIVE, bytes |-> <<>>],
     [ptr |-> ALIVE, bytes |-> <<"a">>], [ptr |-> ALIVE, bytes |-> <<"<">>]}

\* hubbub_parser_parse_extraneous_chunk.
ParseExtraneousChunk ==
    /\ parser \in {ALIVE, NULL}
    /\ hist.ncalls < MaxApiCalls
    /\ \E data \in ApiChunks, insertRes \in {OK, NOMEM}, runRes \in {OK, NOMEM} :
          LET r == hubbub_parser_parse_extraneous_chunk(
                       In(parser, inputstream, tokeniser, delivered),
                       data, insertRes, runRes) IN
          /\ SetInput(r)
          /\ hist' = Noted("parse_extraneous_chunk", data,
                           parser # NULL /\ data.ptr # NULL, insertRes, r)
    /\ UNCHANGED <<parser, stream, tok, tb, opts, lifeLog>>
    /\ UNCHANGED <<tbVars, treeVars>>

\* hubbub_parser_claim_buffer.
ClaimBuffer ==
    /\ parser \in {ALIVE, NULL}
    /\ hist.ncalls < MaxApiCalls
    /\ \E buffer \in {NULL, ALIVE}, len \in {NULL, ALIVE} :
          LET r == hubbub_parser_claim_buffer(
                       In(parser, inputstream, tokeniser, delivered),
                       buffer, len) IN
          /\ SetInput(r)
          /\ hist' = Noted("claim_buffer", NullData, FALSE, OK, r)
    /\ UNCHANGED <<parser, stream, tok, tb, opts, lifeLog>>
    /\ UNCHANGED <<tbVars, treeVars>>

ApiParseChunk == hist.ncalls < MaxApiCalls /\ ParseChunkFrom(ApiChunks)

ApiCompleted == hist.ncalls < MaxApiCalls /\ Completed

NextApi ==
    \/ Create
    \/ SetoptHandlers
    \/ ApiParseChunk
    \/ ParseExtraneousChunk
    \/ ApiCompleted
    \/ ClaimBuffer
    \/ Destroy

SpecApi == InitShell /\ [][NextApi]_vars

\* ---- the sample tree handler called on the trees it has built
Now == Tree(heap, Document)

SetTree(r) ==
    /\ heap' = r.heap
    /\ Document' = r.doc
    /\ UNCHANGED <<treeCalls, tbVars, shellVars, inputVars>>

Elements(h) == {n \in Allocated(h) : h[n].type = "ELEMENT"}

\* A node that is in no tree: no parent and no siblings.
Detached(h, n) == h[n].parent = 0 /\ h[n].next = 0 /\ h[n].prev = 0

TextData == {<<"x">>, <<"y">>}

CreateElement ==
    /\ Cardinality(Allocated(heap)) < MaxTreeNodes
    /\ LET r == create_element(Tree(heap, Document)) IN
       SetTree(r)

CreateText ==
    /\ Cardinality(Allocated(heap)) < MaxTreeNodes
    /\ \E data \in TextData :
          LET r == create_text(Tree(heap, Document), data) IN
          SetTree(r)

\* append_child(parent, child): the treebuilder appends a detached node to
\* an element or to the document, never a node to itself or below itself.
CanAppend(parent, child) ==
    /\ Detached(heap, child)
    /\ parent # child
    /\ parent \notin Below(heap, child)

AppendChild ==
    \E parent \in Elements(heap) \cup {DocumentNode}, child \in Allocated(heap) :
        /\ CanAppend(parent, child)
        /\ LET r == append_child(Tree(heap, Document), parent, child) IN
           SetTree(r)

\* clone_node(node, deep), while there are nodes left to allocate.
CanClone(node, deep) ==
    Cardinality(Allocated(heap)) + CloneCost(heap, node, deep) <= MaxTreeNodes

CloneNode ==
    \E node \in Allocated(heap), deep \in BOOLEAN :
        /\ CanClone(node, deep)
        /\ LET r == clone_node(Tree(heap, Document), node, deep) IN
           SetTree(r)

\* reparent_children(node, new_parent): the new parent is another element,
\* not one below the node.
CanReparent(node, new_parent) ==
    /\ node # new_parent
    /\ new_parent \notin Below(heap, node)

ReparentChildren ==
    \E node \in Elements(heap), new_parent \in Elements(heap) :
        /\ CanReparent(node, new_parent)
        /\ LET r == reparent_children(Tree(heap, Document), node, new_parent) IN
           SetTree(r)

NextTree ==
    \/ CreateElement
    \/ CreateText
    \/ AppendChild
    \/ CloneNode
    \/ ReparentChildren

SpecTree == InitShell /\ [][NextTree]_vars

\* ---- the sample tree handler building trees of elements
\* One more call, while calls are left.
SetLinkTree(r) ==
    /\ treeCalls < MaxLinkCalls
    /\ heap' = r.heap
    /\ Document' = r.doc
    /\ treeCalls' = treeCalls + 1
    /\ UNCHANGED <<tbVars, shellVars, inputVars>>

\* The while loops over a sibling chain (append_child, reparent_children)
\* and clone_node's recursion come to an end only if the chain does.
ChainEnds(n) == Len(Chain(heap, n, MaxLinkNodes + 1)) <= MaxLinkNodes

ChildrenEnd(p) == ChainEnds(IF p = DocumentNode THEN Document ELSE heap[p].child)

\* How many nodes a deep clone_node allocates, if its recursion ends
\* within `fuel` levels; more than there are nodes otherwise.
RECURSIVE DeepCloneCost(_, _)
DeepCloneCost(node, fuel) ==
    IF fuel = 0 THEN MaxLinkNodes + 1
    ELSE 1 + (IF heap[node].next # 0
              THEN DeepCloneCost(heap[node].next, fuel - 1) ELSE 0)
           + (IF heap[node].child # 0
              THEN DeepCloneCost(heap[node].child, fuel - 1) ELSE 0)

CreateLinkElement ==
    /\ Cardinality(Allocated(heap)) < MaxLinkNodes
    /\ SetLinkTree(create_element(Now))

AppendLinkChild ==
    \E parent \in Elements(heap) \cup {DocumentNode}, child \in Allocated(heap) :
        /\ CanAppend(parent, child)
        /\ ChildrenEnd(parent)
        /\ SetLinkTree(append_child(Now, parent, child))

\* insert_before(parent, child, ref_child): ref_child is a child of the
\* element parent, child a detached node that is not above the parent.
InsertBefore ==
    \E parent \in Elements(heap), child \in Allocated(heap),
       ref_child \in Allocated(heap) :
        /\ CanAppend(parent, child)
        /\ ref_child # child
        /\ heap[ref_child].parent = parent
        /\ SetLinkTree(insert_before(Now, parent, child, ref_child))

\* remove_child(parent, child): the function's assertions hold.
RemoveChild ==
    \E parent \in Elements(heap), child \in Allocated(heap) :
        /\ heap[parent].child # 0
        /\ heap[child].parent = parent
        /\ SetLinkTree(remove_child(Now, parent, child))

CloneLinkNode ==
    \E node \in Allocated(heap), deep \in BOOLEAN :
        /\ Cardinality(Allocated(heap))
              + (IF deep THEN DeepCloneCost(node, MaxLinkNodes) ELSE 1)
              <= MaxLinkNodes
        /\ SetLinkTree(clone_node(Now, node, deep))

ReparentLinkChildren ==
    \E node \in Elements(heap), new_parent \in Elements(heap) :
        /\ CanReparent(node, new_parent)
        /\ ChildrenEnd(node) /\ ChildrenEnd(new_parent)
        /\ SetLinkTree(reparent_children(Now, node, new_parent))

NextLinks ==
    \/ CreateLinkElement
    \/ AppendLinkChild
    \/ InsertBefore
    \/ RemoveChild
    \/ ReparentLinkChildren
    \/ CloneLinkNode

SpecLinks == InitShell /\ [][NextLinks]_vars

\* ================================================================= claims
\* ---------------------------------------------------------- treebuilder
\* C1: whenever handle_in_select returns reprocess = true, the insertion
\* mode has been changed away from "in select" (so the dispatch loop ends).
C1_ReprocessLeavesInSelect ==
    (reprocess /\ lastHandler = IN_SELECT) => mode # IN_SELECT

\* C2: a tree-handler call that returns a non-OK result is the last thing
\* done for the token, and the parse call delivering the token does not
\* return OK.
C2_HandlerErrorSurfaced ==
    \A i \in 1..Len(tlog) :
        tlog[i].res # OK => (i = Len(tlog) /\ callResult # OK)

FramesOf(n) ==
    Cardinality({i \in 1..Len(element_stack) : element_stack[i].node = n})

\* C3: for every node, ref_node calls minus unref_node calls equals the
\* number of open-element frames that reference it; once the parser is
\* destroyed the difference is zero for every node.
C3_RefBalance ==
    /\ \A n \in Nodes : refs[n] = FramesOf(n)
    /\ ~tbActive => \A n \in Nodes : refs[n] = 0

\* Destruction released a still open select after "in select" handling.
C3_Witness ==
    /\ ~tbActive
    /\ lastHandler = IN_SELECT
    /\ Len(tlog) >= 6

\* C4: unref_node is called only right after the pop that removed the
\* node's frame, once per pop, with the node that pop produced; no pop
\* fails.
C4_UnrefFollowsPop ==
    /\ \A i \in 1..Len(tlog) :
          tlog[i].op = "unref" =>
             /\ i > 1
             /\ tlog[i - 1].op = "pop"
             /\ tlog[i - 1].node = tlog[i].node
             /\ tlog[i].node \in Nodes
             /\ FramesOf(tlog[i].node) = 0
    /\ \A i \in 1..Len(tlog) :
          tlog[i].op = "pop" =>
             /\ i < Len(tlog)
             /\ tlog[i + 1].op = "unref"
             /\ tlog[i + 1].node = tlog[i].node
    /\ \A i \in 1..Len(tlog) : tlog[i].op # "popfail"

\* An "in select" token popped and released two frames.
C4_Witness ==
    /\ tbActive
    /\ lastHandler = IN_SELECT
    /\ NumUnrefs(tlog) >= 2

\* Stop parsing (EOF handled in "in body") has emptied the stack.
StoppedParsing == eofDone /\ lastHandler = IN_BODY

\* C5: while the treebuilder is active the open-element stack is not empty
\* and its bottom frame is the root html element; "in select" handling
\* never pops it.
C5_BottomFrameStays ==
    (tbActive /\ ~StoppedParsing) =>
        /\ element_stack # <<>>
        /\ element_stack[1] = [type |-> "HTML", node |-> 1]

\* An "in select" token closed the select: frames were popped, the rest
\* of the stack is still there.
C5_Witness ==
    /\ tbActive
    /\ lastHandler = IN_SELECT
    /\ mode = IN_BODY
    /\ NumUnrefs(tlog) >= 1
    /\ Len(element_stack) = 2

\* C6: after the EOF token has been processed the open-element stack is
\* empty.
C6_StackEmptyAfterEof == eofDone => element_stack = <<>>

\* ------------------------------------------- "in select", token by token
\* A treebuilder in "in select" mode, about to handle a token.
InSelectState == tbActive /\ mode = IN_SELECT

\* The context the next handler call starts from.
Here == Ctx(element_stack, mode, refs, <<>>, nextNode)

Garbage == Nodes \cup {NoNode}

\* Which unref_node calls of the handler run fail: every pattern over the
\* first two calls, and all of them.
Failures == SUBSET (1..2) \cup {1..Len(element_stack)}

StartTag(name) == [type |-> "START_TAG", name |-> name]
EndTag(name) == [type |-> "END_TAG", name |-> name]

\* The events of a log with one of the given ops, in order.
Only(log, ops) == SelectSeq(log, LAMBDA e : e.op \in ops)

TypesOf(stack) == [i \in 1..Len(stack) |-> stack[i].type]

\* C12: a start tag "option" with an option as current node pops exactly
\* that frame, releases exactly that node, and then inserts the new option
\* under the closed option's parent; with any other current node nothing
\* is popped and the option goes under the current node.
C12_OptionClosesOption ==
    (InSelectState /\ nextNode <= MaxNodes) =>
        \A garbage \in Garbage, fails \in Failures :
            LET r == handle_in_select(Here, StartTag("option"), garbage, fails)
                n == Len(element_stack)
                top == element_stack[n]
                new == [type |-> "OPTION", node |-> nextNode]
                moves == Only(r.c.log, {"pop", "popfail", "unref"})
                appends == Only(r.c.log, {"append"})
            IN /\ ~r.reprocess
               /\ Len(appends) = 1
               /\ r.c.log[Len(r.c.log)] = Ev("push", nextNode, NoNode, OK)
               /\ IF top.type = "OPTION"
                  THEN /\ r.c.stack =
                             Append(SubSeq(element_stack, 1, n - 1), new)
                       /\ Len(moves) = 2
                       /\ SubSeq(r.c.log, 1, 2) = moves
                       /\ moves[1] = Ev("pop", top.node, NoNode, OK)
                       /\ moves[2].op = "unref" /\ moves[2].node = top.node
                       /\ appends[1].other = element_stack[n - 1].node
                  ELSE /\ r.c.stack = Append(element_stack, new)
                       /\ moves = <<>>
                       /\ appends[1].other = top.node

\* A second option arrived while the first was the current node.
C12_Witness ==
    /\ tbActive /\ ~reprocess
    /\ token = StartTag("option")
    /\ lastHandler = IN_SELECT
    /\ Len(tlog) = 6
    /\ tlog[1].op = "pop" /\ tlog[2].op = "unref"
    /\ element_stack[Len(element_stack)].type = "OPTION"

\* The index of the topmost SELECT frame in table scope, 0 if there is none.
SelectInTableScope(stack) ==
    LET hits == {i \in 1..Len(stack) :
                    /\ stack[i].type = "SELECT"
                    /\ \A j \in (i + 1)..Len(stack) :
                          stack[j].type \notin {"SELECT", "HTML", "TABLE"}}
    IN IF hits = {} THEN 0 ELSE CHOOSE i \in hits : TRUE

ClosingTokens ==
    {StartTag("select"), StartTag("input"), StartTag("textarea"),
     EndTag("select")}

\* C18: start tags "select", "input", "textarea" and the end tag "select"
\* pop the stack up to and including the SELECT frame in table scope and
\* reset the insertion mode; with no SELECT in table scope stack and mode
\* stay as they are. Only "input" and "textarea" are reprocessed.
C18_SelectClosedInScope ==
    InSelectState =>
        \A t \in ClosingTokens, garbage \in Garbage, fails \in Failures :
            LET r == handle_in_select(Here, t, garbage, fails)
                i == SelectInTableScope(element_stack)
            IN /\ r.reprocess = (t \in {StartTag("input"), StartTag("textarea")})
               /\ IF i > 0
                  THEN /\ r.c.stack = SubSeq(element_stack, 1, i - 1)
                       /\ r.c.mode = reset_insertion_mode(r.c).mode
                       /\ Len(Only(r.c.log, {"pop"})) = Len(element_stack) - i + 1
                  ELSE /\ r.c.stack = element_stack
                       /\ r.c.mode = mode
                       /\ r.c.log = <<>>

\* An "input" start tag closed the select and is handed on.
C18_Witness ==
    /\ tbActive /\ reprocess
    /\ token = StartTag("input")
    /\ lastHandler = IN_SELECT
    /\ mode = IN_BODY
    /\ TypesOf(element_stack) = <<"HTML", "BODY">>
    /\ Len(Only(tlog, {"pop"})) = 3

\* C19: an end tag "optgroup" pops the current option only when the frame
\* below it is an optgroup, then pops the current node if it is an
\* optgroup: an option directly under select is left alone and at most two
\* frames go. An end tag "option" pops one frame if the current node is an
\* option and none otherwise.
C19_EndTagsPopMatching ==
    InSelectState =>
        \A garbage \in Garbage, fails \in Failures :
            LET n == Len(element_stack)
                types == TypesOf(element_stack)
                og == handle_in_select(Here, EndTag("optgroup"), garbage, fails)
                op == handle_in_select(Here, EndTag("option"), garbage, fails)
                viaOption == n >= 2 /\ types[n] = "OPTION"
                                    /\ types[n - 1] = "OPTGROUP"
                gone == IF viaOption THEN 2
                        ELSE IF types[n] = "OPTGROUP" THEN 1 ELSE 0
            IN /\ ~og.reprocess /\ ~op.reprocess
               /\ og.c.mode = mode /\ op.c.mode = mode
               /\ og.c.stack = SubSeq(element_stack, 1, n - gone)
               /\ Len(Only(og.c.log, {"pop"})) = gone
               /\ Len(Only(og.c.log, {"unref"})) = gone
               /\ (n >= 2 /\ types[n] = "OPTION" /\ types[n - 1] = "SELECT")
                     => og.c.stack = element_stack
               /\ op.c.stack = IF types[n] = "OPTION"
                               THEN SubSeq(element_stack, 1, n - 1)
                               ELSE element_stack
               /\ Len(Only(op.c.log, {"pop"})) =
                     (IF types[n] = "OPTION" THEN 1 ELSE 0)

\* An end tag "optgroup" closed an option and the optgroup around it.
C19_Witness ==
    /\ tbActive /\ ~reprocess
    /\ token = EndTag("optgroup")
    /\ lastHandler = IN_SELECT
    /\ NumUnrefs(tlog) = 2
    /\ element_stack[Len(element_stack)].type = "SELECT"

\* The tokens "in select" has no action for, whatever the stack holds.
NeverActedOn(t) ==
    \/ t.type \in {"DOCTYPE", "EOF"}
    \/ /\ t.type = "START_TAG"
       /\ element_type_from_name(t.name) \notin
             {"HTML", "OPTION", "OPTGROUP", "SELECT", "INPUT", "TEXTAREA"}
    \/ /\ t.type = "END_TAG"
       /\ element_type_from_name(t.name) \notin
             {"OPTGROUP", "OPTION", "SELECT"}

\* An option or optgroup end tag whose element type is not the current
\* node's.
EndTagNotCurrent(t) ==
    /\ t.type = "END_TAG"
    /\ element_type_from_name(t.name) \in {"OPTION", "OPTGROUP"}
    /\ current_node(Here) # element_type_from_name(t.name)

\* The current node is an option whose frame sits directly on an optgroup.
OptionInOptgroup ==
    current_node(Here) = "OPTION" /\ prev_node(Here) = "OPTGROUP"

\* The handler returns without reprocessing, the context as it was and no
\* tree-handler call or stack move made.
Dropped(t) ==
    \A garbage \in Garbage, fails \in Failures :
        handle_in_select(Here, t, garbage, fails) = Done(Here)

AboveSelect(stack) ==
    LET at == CHOOSE i \in 1..Len(stack) :
                 /\ stack[i].type = "SELECT"
                 /\ \A j \in (i + 1)..Len(stack) : stack[j].type # "SELECT"
    IN SubSeq(TypesOf(stack), at + 1, Len(stack))

HasSelect(stack) == \E i \in 1..Len(stack) : stack[i].type = "SELECT"

\* C20: with a select open, the frames above it are none, [option],
\* [optgroup] or [optgroup, option]: no option inside an option, no
\* optgroup inside an option or an optgroup.
C20_SelectContentShape ==
    (tbActive /\ HasSelect(element_stack)) =>
        AboveSelect(element_stack) \in
            {<<>>, <<"OPTION">>, <<"OPTGROUP">>, <<"OPTGROUP", "OPTION">>}

\* An optgroup start tag closed the open option before being inserted.
C20_Witness ==
    /\ tbActive /\ ~reprocess
    /\ token = StartTag("optgroup")
    /\ lastHandler = IN_SELECT
    /\ HasSelect(element_stack)
    /\ AboveSelect(element_stack) = <<"OPTGROUP">>
    /\ NumUnrefs(tlog) = 1

\* ---------------------------------------------------------- chunked input
CountEof(seq) == Cardinality({i \in 1..Len(seq) : seq[i].type = "EOF"})

\* C7: after parse_chunk calls followed by one completed call, all
\* returning OK, exactly one Eof token was delivered and it is the last
\* token; no Eof token is delivered before end-of-input is signalled.
C7_ExactlyOneFinalEof ==
    /\ (hist.lastCall = "completed" /\ hist.nCompleted = 1 /\ hist.allOk) =>
          /\ CountEof(delivered) = 1
          /\ delivered[Len(delivered)].type = "EOF"
    /\ ~inputstream.had_eof => CountEof(delivered) = 0

\* Adjacent character tokens joined: the token sequence with the places
\* where character tokens were split forgotten.
RECURSIVE Coalesce(_)
Coalesce(seq) ==
    IF Len(seq) < 2 THEN seq
    ELSE IF seq[1].type = "CHARACTER" /\ seq[2].type = "CHARACTER"
    THEN Coalesce(<<[seq[1] EXCEPT !.data = @ \o seq[2].data]>>
                  \o SubSeq(seq, 3, Len(seq)))
    ELSE <<seq[1]>> \o Coalesce(Tail(seq))

\* What a fresh parser delivers for one parse_chunk call with these bytes.
SingleCall(bytes) ==
    hubbub_parser_parse_chunk(In(ALIVE, StreamInit, TokInit, <<>>),
                              [ptr |-> ALIVE, bytes |-> bytes], OK, OK).delivered

\* C8: parse_chunk(A) then parse_chunk(B) delivers the tokens of one
\* parse_chunk(A ++ B), up to where character tokens are split.
C8_ChunkingInvisible ==
    (hist.ncalls = 2 /\ hist.lastCall = "parse_chunk" /\ hist.nCompleted = 0
         /\ hist.allOk) =>
        Coalesce(delivered) = Coalesce(SingleCall(hist.accepted))

\* C9: the stream holds the accepted chunks in call order; the tokeniser
\* has run once per call whose append succeeded and not at all for a call
\* whose append failed, which returns the append's error; a call that
\* returns OK has tokenised everything appended so far.
C9_AppendThenRun ==
    /\ inputstream.bytes = hist.accepted
    /\ hist.runs = hist.okAppends
    /\ hist.lastAppend \notin {"none", OK} => result = hist.lastAppend
    /\ (hist.lastCall # "none" /\ result = OK) =>
          inputstream.cursor = Len(inputstream.bytes)

\* Two chunks went in, a third call's append failed.
C9_Witness ==
    /\ hist.ncalls = 3
    /\ hist.okAppends = 2
    /\ Len(hist.accepted) = 2
    /\ hist.lastAppend = NOMEM
    /\ result = NOMEM

\* ---------------------------------------------------------- parser shell
Components == {"stream", "tok", "tb"}

\* How many of `what` exist after the first i events of the life log.
AliveAt(log, i, what) ==
    Cardinality({j \in 1..i : log[j] = Life("create", what)})
    - Cardinality({j \in 1..i : log[j] = Life("destroy", what)})

\* C10: at every point of a parser's life a treebuilder exists only while
\* its tokeniser exists and a tokeniser only while its input stream exists;
\* no component is destroyed twice or before it was created; the parser's
\* pointers tell which components exist.
C10_LifetimesNest ==
    /\ \A i \in 0..Len(lifeLog) :
          /\ \A w \in Components : AliveAt(lifeLog, i, w) \in {0, 1}
          /\ AliveAt(lifeLog, i, "tb") <= AliveAt(lifeLog, i, "tok")
          /\ AliveAt(lifeLog, i, "tok") <= AliveAt(lifeLog, i, "stream")
    /\ (tb = ALIVE) <=> (AliveAt(lifeLog, Len(lifeLog), "tb") = 1)
    /\ (tok = ALIVE) <=> (AliveAt(lifeLog, Len(lifeLog), "tok") = 1)
    /\ (stream = ALIVE) <=> (AliveAt(lifeLog, Len(lifeLog), "stream") = 1)

\* setopt TOKEN_HANDLER has destroyed the treebuilder of a live parser.
C10_Witness ==
    /\ parser = ALIVE
    /\ tb = NULL
    /\ tok = ALIVE
    /\ <<"tok", "TOKEN_HANDLER">> \in opts
    /\ lifeLog[Len(lifeLog)] = Life("destroy", "tb")

\* The order in which hubbub_parser_create makes the parser and its parts.
CreationOrder == <<"parser", "stream", "tok", "tb">>

\* What was created, and what destroyed, in the order of the life log.
WhatsOf(log, op) ==
    LET evs == SelectSeq(log, LAMBDA e : e.op = op)
    IN [i \in 1..Len(evs) |-> evs[i].what]

Reverse(seq) == [i \in 1..Len(seq) |-> seq[Len(seq) + 1 - i]]

\* How many of CreationOrder exist before the creation `failAt` fails.
MadeBefore(failAt) ==
    CASE failAt = "parser" -> 0
      [] failAt = "stream" -> 1
      [] failAt = "tok" -> 2
      [] failAt = "tb" -> 3

\* C23: hubbub_parser_create with a NULL allocator or a failing allocation
\* returns NULL with every part it had made destroyed once, in reverse
\* order of creation, the parser object last, so that nothing stays
\* allocated; with no failure the parser and its three components exist.
\* A parser pointer that is NULL never goes with a live component.
C23_CreateAllOrNothing ==
    /\ \A alloc \in {NULL, ALIVE}, failAt \in CreateFailures :
          LET p == hubbub_parser_create(alloc, failAt)
              made == WhatsOf(p.log, "create")
              gone == WhatsOf(p.log, "destroy")
          IN IF alloc = NULL \/ failAt # "none"
             THEN /\ p.parser = NULL /\ p.stream = NULL
                  /\ p.tok = NULL /\ p.tb = NULL
                  /\ made = SubSeq(CreationOrder, 1,
                                   IF alloc = NULL THEN 0
                                   ELSE MadeBefore(failAt))
                  /\ gone = Reverse(made)
                  /\ p.log = [i \in 1..Len(made) |-> Life("create", made[i])]
                             \o [i \in 1..Len(gone) |->
                                    Life("destroy", gone[i])]
             ELSE /\ p.parser = ALIVE /\ p.stream = ALIVE
                  /\ p.tok = ALIVE /\ p.tb = ALIVE
                  /\ made = CreationOrder
                  /\ gone = <<>>
    /\ parser = NULL =>
          /\ stream = NULL /\ tok = NULL /\ tb = NULL
          /\ \A w \in Components \cup {"parser"} :
                AliveAt(lifeLog, Len(lifeLog), w) = 0

\* Creation failed at the treebuilder: tokeniser, input stream and parser
\* object were undone and NULL was returned.
C23_Witness ==
    /\ parser = NULL
    /\ result = NULL
    /\ WhatsOf(lifeLog, "destroy") = <<"tok", "stream", "parser">>

\* ---------------------------------------------------- sample tree handler
Last(seq) == IF seq = <<>> THEN 0 ELSE seq[Len(seq)]

\* C15: clone_node returns a new node with no parent and no siblings; its
\* children are copies of the original's children when deep, none when
\* not; a deep clone allocates one node per node of the original's subtree
\* and every copied child has the clone as parent.
C15_CloneDetachedSubtree ==
    \A node \in Allocated(heap), deep \in BOOLEAN :
        CanClone(node, deep) =>
            LET r == clone_node(Now, node, deep)
                c == r.result
                was == Children(Now, node)
                got == Children(r, c)
            IN /\ c \notin Allocated(heap)
               /\ r.heap[c].parent = 0
               /\ r.heap[c].prev = 0
               /\ r.heap[c].next = 0
               /\ ~deep => got = <<>>
               /\ deep =>
                    /\ Len(got) = Len(was)
                    /\ \A i \in 1..Len(got) :
                          /\ r.heap[got[i]].type = heap[was[i]].type
                          /\ r.heap[got[i]].content = heap[was[i]].content
                          /\ r.heap[got[i]].parent = c
               /\ Cardinality(Allocated(r.heap)) - Cardinality(Allocated(heap))
                     = (IF deep THEN 1 + Cardinality(Below(heap, node)) ELSE 1)

\* C16: append_child makes the child the last child of the parent and
\* returns it, unless the child and the parent's last child are both text:
\* then the child's text is added to the end of the last child's, the
\* parent's children stay as they were and the last child is returned.
C16_AppendChildCoalesces ==
    \A parent \in Elements(heap) \cup {DocumentNode}, child \in Allocated(heap) :
        CanAppend(parent, child) =>
            LET r == append_child(Now, parent, child)
                was == Children(Now, parent)
                last == Last(was)
                got == Children(r, parent)
            IN IF last # 0 /\ heap[child].type = "CHARACTER"
                          /\ heap[last].type = "CHARACTER"
               THEN /\ r.result = last
                    /\ r.heap[last].content =
                          heap[last].content \o heap[child].content
                    /\ got = was
               ELSE /\ r.result = child
                    /\ got = Append(was, child)
                    /\ r.heap[child].parent = parent

\* A text node "y" was appended after a text node "x" and absorbed by it.
C16_Witness ==
    \E p \in Elements(heap), n \in Allocated(heap), c \in Allocated(heap) :
        /\ n # c
        /\ Last(Children(Now, p)) = n
        /\ heap[n].type = "CHARACTER" /\ heap[n].content = <<"x", "y">>
        /\ heap[c].type = "CHARACTER" /\ heap[c].content = <<"y">>
        /\ heap[c].parent = p
        /\ \A i \in 1..Len(Children(Now, p)) : Children(Now, p)[i] # c

\* C17: reparent_children moves every child of the node to the new parent,
\* in their order, after the children the new parent had; the node is left
\* without children and every moved child has the new parent as parent.
C17_ReparentKeepsOrder ==
    \A node \in Elements(heap), new_parent \in Elements(heap) :
        CanReparent(node, new_parent) =>
            LET r == reparent_children(Now, node, new_parent)
                moved == Children(Now, node)
            IN /\ Children(r, new_parent) = Children(Now, new_parent) \o moved
               /\ Children(r, node) = <<>>
               /\ \A i \in 1..Len(moved) : r.heap[moved[i]].parent = new_parent

\* Two text nodes side by side under one element: the second came by
\* reparent_children, after the child the new parent already had.
C17_Witness ==
    \E p \in Elements(heap) :
        LET kids == Children(Now, p) IN
        /\ Len(kids) = 2
        /\ heap[kids[1]].type = "CHARACTER"
        /\ heap[kids[2]].type = "CHARACTER"
        /\ heap[kids[1]].parent = p /\ heap[kids[2]].parent = p
        /\ \E q \in Elements(heap) : q # p /\ heap[q].child = 0

\* ------------------------------------------------- the public interface
Pcur == P(parser, stream, tok, tb, opts, lifeLog)

Icur == In(parser, inputstream, tokeniser, delivered)

SetoptResults == {OK, BADPARM}

\* What setopt TOKEN_HANDLER with valid arguments does here, and what the
\* treebuilder's options do once the treebuilder is gone.
C11_SetoptEffect ==
    /\ parser = ALIVE =>
          \A tbRes \in SetoptResults, tokRes \in SetoptResults :
              LET r == hubbub_parser_setopt(Pcur, "TOKEN_HANDLER", ALIVE,
                                            tbRes, tokRes) IN
              /\ r.p.tb = NULL
              /\ AliveAt(r.p.log, Len(r.p.log), "tb") = 0
              /\ r.result = tokRes
    /\ (parser = ALIVE /\ tb = NULL) =>
          \A type \in {"TREE_HANDLER", "DOCUMENT_NODE"},
             tbRes \in SetoptResults, tokRes \in SetoptResults :
              hubbub_parser_setopt(Pcur, type, ALIVE, tbRes, tokRes)
                  = [p |-> Pcur, result |-> OK]

\* A step of a parser whose treebuilder is gone: it stays gone and gets no
\* token.
C11_Step ==
    (parser = ALIVE /\ tb = NULL /\ parser' = ALIVE) =>
        /\ tb' = NULL
        /\ hist'.tbTokens = hist.tbTokens

\* C11: setopt TOKEN_HANDLER with non-NULL arguments destroys the
\* treebuilder; no later operation on the parser brings it back, no later
\* token reaches it (so no tree-handler call is made), and TREE_HANDLER and
\* DOCUMENT_NODE then return OK and change nothing.
C11_TokenHandlerBypass == [](C11_SetoptEffect) /\ [][C11_Step]_vars

\* Tokens went to the treebuilder, then TOKEN_HANDLER was set, then more
\* tokens were emitted and the treebuilder got none of them.
C11_Witness ==
    /\ parser = ALIVE /\ tb = NULL
    /\ <<"tok", "TOKEN_HANDLER">> \in opts
    /\ hist.tbTokens # <<>>
    /\ Len(delivered) > Len(hist.tbTokens)

Rejected == Back(inputstream, tokeniser, delivered, BADPARM, FALSE)

\* C14: with a NULL parser or NULL params setopt returns BADPARM for every
\* option type and changes nothing; an unknown type returns INVALID; the
\* parse calls, completed and claim_buffer return BADPARM for a NULL
\* argument, append nothing, do not run the tokeniser and change nothing.
C14_BadArgumentsRejected ==
    /\ \A type \in OptTypes \cup {"NO_SUCH_OPTION"}, params \in {NULL, ALIVE},
          tbRes \in SetoptResults, tokRes \in SetoptResults :
          LET r == hubbub_parser_setopt(Pcur, type, params, tbRes, tokRes) IN
          /\ (parser = NULL \/ params = NULL) =>
                r = [p |-> Pcur, result |-> BADPARM]
          /\ (parser = ALIVE /\ params = ALIVE /\ type \notin OptTypes) =>
                r = [p |-> Pcur, result |-> INVALID]
    /\ \A data \in ChunkArgs, res1 \in {OK, NOMEM}, res2 \in {OK, NOMEM} :
          (parser = NULL \/ data.ptr = NULL) =>
             /\ hubbub_parser_parse_chunk(Icur, data, res1, res2) = Rejected
             /\ hubbub_parser_parse_extraneous_chunk(Icur, data, res1, res2)
                   = Rejected
    /\ \A res1 \in {OK, NOMEM}, res2 \in {OK, NOMEM} :
          parser = NULL => hubbub_parser_completed(Icur, res1, res2) = Rejected
    /\ \A buffer \in {NULL, ALIVE}, len \in {NULL, ALIVE} :
          (parser = NULL \/ buffer = NULL \/ len = NULL) =>
             hubbub_parser_claim_buffer(Icur, buffer, len) = Rejected

\* claim_buffer was refused on a parser that holds data: the stream still
\* owns the buffer.
C14_Witness ==
    /\ parser = ALIVE
    /\ hist.lastCall = "claim_buffer"
    /\ result = BADPARM
    /\ inputstream.owner = "stream"
    /\ inputstream.bytes # <<>>

\* The options registered once `comp` has accepted `type`, or as they were
\* if it has not.
Registered(comp, type, res) ==
    IF res = OK THEN opts \cup {<<comp, type>>} ELSE opts

\* C24: with valid arguments BUFFER_HANDLER is set on the treebuilder alone
\* if there is one and on the tokeniser alone otherwise; ERROR_HANDLER is
\* set on the treebuilder, if there is one, and then on the tokeniser, and
\* a treebuilder that rejects it leaves the tokeniser's handler as it was
\* and has its error returned; CONTENT_MODEL is set on the tokeniser
\* alone. Nothing but the registered options changes.
C24_HandlerOptionRouting ==
    parser = ALIVE =>
        \A tbRes \in SetoptResults, tokRes \in SetoptResults :
            LET buf == hubbub_parser_setopt(Pcur, "BUFFER_HANDLER", ALIVE,
                                            tbRes, tokRes)
                err == hubbub_parser_setopt(Pcur, "ERROR_HANDLER", ALIVE,
                                            tbRes, tokRes)
                cm == hubbub_parser_setopt(Pcur, "CONTENT_MODEL", ALIVE,
                                           tbRes, tokRes)
            IN /\ \A r \in {buf, err, cm} : [r.p EXCEPT !.opts = opts] = Pcur
               /\ IF tb # NULL
                  THEN /\ buf.p.opts = Registered("tb", "BUFFER_HANDLER", tbRes)
                       /\ buf.result = tbRes
                       /\ <<"tok", "BUFFER_HANDLER">> \notin buf.p.opts
                  ELSE /\ buf.p.opts = Registered("tok", "BUFFER_HANDLER",
                                                  tokRes)
                       /\ buf.result = tokRes
                       /\ <<"tb", "BUFFER_HANDLER">> \notin buf.p.opts
               /\ IF tb # NULL /\ tbRes # OK
                  THEN err = [p |-> Pcur, result |-> tbRes]
                  ELSE /\ err.p.opts =
                             Registered("tok", "ERROR_HANDLER", tokRes)
                             \cup (IF tb # NULL
                                   THEN {<<"tb", "ERROR_HANDLER">>} ELSE {})
                       /\ err.result = tokRes
               /\ cm.p.opts = Registered("tok", "CONTENT_MODEL", tokRes)
               /\ cm.result = tokRes

\* On a parser with its treebuilder the buffer handler went to the
\* treebuilder only, the error handler to both and the content model to
\* the tokeniser.
C24_Witness ==
    /\ parser = ALIVE /\ tb = ALIVE
    /\ {o \in opts : o[2] = "BUFFER_HANDLER"} = {<<"tb", "BUFFER_HANDLER">>}
    /\ {o \in opts : o[2] = "ERROR_HANDLER"}
          = {<<"tb", "ERROR_HANDLER">>, <<"tok", "ERROR_HANDLER">>}
    /\ {o \in opts : o[2] = "CONTENT_MODEL"} = {<<"tok", "CONTENT_MODEL">>}

\* The bytes of the stream the tokeniser has consumed, and those it has not.
Consumed == SubSeq(inputstream.bytes, 1, inputstream.cursor)

Unconsumed ==
    SubSeq(inputstream.bytes, inputstream.cursor + 1, Len(inputstream.bytes))

\* What the tokeniser, in its present state, emits for these bytes.
TokensFor(bytes) ==
    TokLoop([inputstream EXCEPT !.bytes = bytes, !.cursor = 0],
            tokeniser, <<>>).out

\* C22: parse_extraneous_chunk with valid arguments puts its bytes between
\* the consumed bytes and the unconsumed tail and runs the tokeniser in the
\* same call, which then sees the inserted bytes followed by the tail; if
\* the insert fails the tokeniser is not run, nothing changes and the
\* insert's error is returned.
C22_ExtraneousChunkSplicedAndRun ==
    /\ parser = ALIVE =>
          \A data \in ChunkArgs \ {NullData},
             insertRes \in {OK, NOMEM}, runRes \in {OK, NOMEM} :
              LET r == hubbub_parser_parse_extraneous_chunk(Icur, data,
                                                            insertRes, runRes)
              IN IF insertRes # OK
                 THEN r = Back(inputstream, tokeniser, delivered, insertRes,
                               FALSE)
                 ELSE /\ r.ran
                      /\ r.s.bytes = Consumed \o data.bytes \o Unconsumed
                      /\ r.result = runRes
                      /\ runRes = OK =>
                            /\ r.s.cursor = Len(r.s.bytes)
                            /\ r.delivered = delivered
                                  \o TokensFor(data.bytes \o Unconsumed)
    /\ hist.lastCall = "parse_extraneous_chunk" =>
          /\ hist.lastAppend \notin {"none", OK} =>
                ~hist.allOk /\ hist.runs < hist.ncalls
          /\ hist.allOk => inputstream.cursor = Len(inputstream.bytes)

\* An "a" was left unconsumed by a run that failed; a "<" was then inserted
\* in front of it and the run in the same call read both as the start of a
\* tag.
C22_Witness ==
    /\ hist.lastCall = "parse_extraneous_chunk"
    /\ hist.lastAppend = OK
    /\ hist.runs = 2
    /\ inputstream.bytes = <<"<", "a">>
    /\ inputstream.cursor = 2
    /\ tokeniser.state = "tag_name"
    /\ delivered = <<>>

\* The first child of a node or of the document.
FirstChild(p) == IF p = DocumentNode THEN Document ELSE heap[p].child

\* C25: for every node next.prev and prev.next point back to it; every node
\* on the child/next chain of an element or of the document has it as
\* parent; a first child has no previous sibling.
C25_TreeLinksConsistent ==
    /\ \A n \in Allocated(heap) :
          /\ heap[n].next # 0 => heap[heap[n].next].prev = n
          /\ heap[n].prev # 0 => heap[heap[n].prev].next = n
    /\ \A p \in Elements(heap) \cup {DocumentNode} :
          FirstChild(p) # 0 =>
             /\ heap[FirstChild(p)].prev = 0
             /\ LET kids == Children(Now, p) IN
                \A i \in 1..Len(kids) : heap[kids[i]].parent = p
====
